---- MODULE Spec2Model ----
(***************************************************************************)
(* A model of image-content-analyzer: the TTL cache (utils/cache), the     *)
(* skin classifier (skinDetection), the text classifier                    *)
(* (tesseractDetection) and the single-image and batch orchestrators       *)
(* (combinedImageAnalysis).                                                *)
(*                                                                         *)
(* Units.  Time is in milliseconds, as Date.now().  A confidence is kept   *)
(* in thousandths (0.7 is 700), a skin percentage in hundredths of a       *)
(* percent (37.5 is 3750), so that the code's arithmetic stays in the      *)
(* integers.  An optional value is a sequence of length 0 or 1.            *)
(***************************************************************************)
EXTENDS Integers, Sequences, FiniteSets, TLC

VARIABLES now, ticks, cache, fast, batch, lastOp, written, text, analysis, image, scanned

vars == <<now, ticks, cache, fast, batch, lastOp, written, text, analysis, image, scanned>>

None == << >>
Some(x) == <<x>>

Max(a, b) == IF a >= b THEN a ELSE b
Min(a, b) == IF a <= b THEN a ELSE b

(***************************************************************************)
(* Bounds of the model.                                                    *)
(***************************************************************************)
\* how many times the clock may advance in one behaviour
MaxTicks == 2
\* how many calls of analyzeImageFast are made, directly or by a batch
MaxCalls == 3
\* how many requests of callers (direct calls of analyzeImageFast, calls of
\* analyzeImagesBatch) are pending at once
MaxPending == 1
\* how many analyzeImagesBatch calls are made
MaxBatch == 2
\* how many words a generated OCR text has at most
MaxWords == 2

(***************************************************************************)
(* utils/cache: the process-wide Map<string, {data, expiry}>.              *)
(* An entry also carries `by`, the id of the analyzeImageFast call that    *)
(* stored it (0: somebody else), which the code does not have: it is       *)
(* history, read only by the properties.                                   *)
(***************************************************************************)
MsPerSecond == 1000

\* cache.ts:29 and :48, `Date.now() > entry.expiry`
IsExpired_AtExpiry(entry, t) == t >= entry.expiry
IsExpired_Flipped(entry, t) == t < entry.expiry
IsExpired(entry, t) == t > entry.expiry

Without(c, key) == [k \in DOMAIN c \ {key} |-> c[k]]

\* safeSetCache(key, data, ttlSeconds), with the time of the call
safeSetCache(c, key, data, ttlSeconds, t, by) ==
  (key :> [data |-> data, expiry |-> t + ttlSeconds * MsPerSecond, by |-> by]) @@ c

\* safeGetCache(key): the value returned (None for null) and the cache it leaves
safeGetCache_KeepsExpired(c, key, t) ==
  IF key \notin DOMAIN c THEN [value |-> None, cache |-> c]
  ELSE IF IsExpired(c[key], t) THEN [value |-> None, cache |-> c]
  ELSE [value |-> Some(c[key].data), cache |-> c]
safeGetCache(c, key, t) ==
  IF key \notin DOMAIN c THEN [value |-> None, cache |-> c]
  ELSE IF IsExpired(c[key], t) THEN [value |-> None, cache |-> Without(c, key)]
  ELSE [value |-> Some(c[key].data), cache |-> c]

\* clearExpiredCache()
clearExpiredCache_All(c, t) == [k \in {} |-> 0]
clearExpiredCache(c, t) ==
  [k \in {x \in DOMAIN c : ~IsExpired(c[x], t)} |-> c[k]]

\* clearCache()
clearCache(c) == [k \in {} |-> 0]

(***************************************************************************)
(* tesseractDetection: the text classifier.  Text is a string; a           *)
(* character is a string of length 1.                                      *)
(***************************************************************************)
LowerLetters == "abcdefghijklmnopqrstuvwxyz"
UpperLetters == "ABCDEFGHIJKLMNOPQRSTUVWXYZ"
DigitChars == "0123456789"

CharAt(s, i) == SubSeq(s, i, i)
CharsOf(s) == {CharAt(s, i) : i \in 1..Len(s)}

\* the class \w of a JavaScript regular expression, and the class \s (the
\* whitespace the model's texts contain)
WordCharSet == CharsOf(LowerLetters) \cup CharsOf(UpperLetters) \cup CharsOf(DigitChars) \cup {"_"}
SpaceCharSet == {" ", "\n"}

LowerChar(ch) ==
  IF ch \in CharsOf(UpperLetters)
  THEN CharAt(LowerLetters, CHOOSE i \in 1..Len(UpperLetters) : CharAt(UpperLetters, i) = ch)
  ELSE ch

RECURSIVE ToLowerFrom(_, _)
ToLowerFrom(s, i) ==
  IF i > Len(s) THEN "" ELSE LowerChar(CharAt(s, i)) \o ToLowerFrom(s, i + 1)
\* String.prototype.toLowerCase
ToLowerCase(s) == ToLowerFrom(s, 1)

RECURSIVE StripFrom(_, _)
StripFrom(s, i) ==
  IF i > Len(s) THEN ""
  ELSE (IF CharAt(s, i) \in WordCharSet \cup SpaceCharSet THEN CharAt(s, i) ELSE " ")
       \o StripFrom(s, i + 1)
\* .replace(/[^\w\s]/g, ' ')
StripPunctuation(s) == StripFrom(s, 1)

RECURSIVE CollapseFrom(_, _)
CollapseFrom(s, i) ==
  IF i > Len(s) THEN ""
  ELSE IF CharAt(s, i) \in SpaceCharSet
       THEN (IF i > 1 /\ CharAt(s, i - 1) \in SpaceCharSet THEN "" ELSE " ")
            \o CollapseFrom(s, i + 1)
       ELSE CharAt(s, i) \o CollapseFrom(s, i + 1)
\* .replace(/\s+/g, ' ')
CollapseWhitespace(s) == CollapseFrom(s, 1)

\* String.prototype.trim
Trim(s) ==
  LET keep == {i \in 1..Len(s) : CharAt(s, i) \notin SpaceCharSet}
  IN IF keep = {} THEN ""
     ELSE SubSeq(s, CHOOSE i \in keep : \A j \in keep : i <= j,
                    CHOOSE i \in keep : \A j \in keep : i >= j)

normalizeText(t) == Trim(CollapseWhitespace(StripPunctuation(ToLowerCase(t))))

\* EXPLICIT_KEYWORDS, in the order Object.entries walks it
KeywordsNudity ==
  <<"nude", "naked", "undressed", "topless", "bottomless", "bare",
    "exposed", "revealing", "strip", "bikini", "underwear", "lingerie">>
KeywordsSexual ==
  <<"sex", "sexual", "porn", "xxx", "adult", "erotic", "intimate",
    "orgasm", "masturbate", "horny", "sexy", "seduce", "arousal",
    "pleasure", "kinky", "fetish", "bdsm", "escort", "hookup">>
KeywordsPornography ==
  <<"pornography", "pornographic", "porn", "xxx", "adult film",
    "sex tape", "webcam", "camgirl", "onlyfans", "premium content",
    "adult content", "nsfw", "explicit", "mature content">>
KeywordsViolence ==
  <<"violence", "violent", "fight", "attack", "assault", "abuse",
    "hit", "punch", "kick", "slap", "beat", "torture", "harm",
    "hurt", "wound", "injure", "threat", "weapon", "gun", "knife">>
KeywordsGore ==
  <<"gore", "blood", "bleeding", "wound", "injury", "death", "dead",
    "corpse", "murder", "kill", "suicide", "mutilation", "dismember",
    "brutal", "savage", "graphic", "disturbing", "gruesome">>

CatalogOf(category, keywords) ==
  [i \in 1..Len(keywords) |-> [category |-> category, keyword |-> keywords[i]]]

EXPLICIT_KEYWORDS ==
  CatalogOf("nudity", KeywordsNudity) \o CatalogOf("sexual", KeywordsSexual)
  \o CatalogOf("pornography", KeywordsPornography)
  \o CatalogOf("violence", KeywordsViolence) \o CatalogOf("gore", KeywordsGore)

\* normalizedText.includes(keyword)
Includes(s, keyword) ==
  \E i \in 1..(Len(s) - Len(keyword) + 1) : SubSeq(s, i, i + Len(keyword) - 1) = keyword

IsWordAt(s, i) == i >= 1 /\ i <= Len(s) /\ CharAt(s, i) \in WordCharSet
\* \b between positions i and i + 1
WordBoundary(s, i) == IsWordAt(s, i) # IsWordAt(s, i + 1)

\* new RegExp(`\\b${keyword}\\b`, 'i').test(s)
RegexWordMatch(s, keyword) ==
  LET ls == ToLowerCase(s)
      lk == ToLowerCase(keyword)
  IN \E i \in 1..(Len(s) - Len(keyword) + 1) :
        /\ SubSeq(ls, i, i + Len(keyword) - 1) = lk
        /\ WordBoundary(s, i - 1)
        /\ WordBoundary(s, i + Len(keyword) - 1)

\* tesseractDetection.ts:71, the test of one keyword
KeywordHits_WholeWordOnly(normalizedText, keyword) == RegexWordMatch(normalizedText, keyword)
KeywordHits(normalizedText, keyword) ==
  RegexWordMatch(normalizedText, keyword) \/ Includes(normalizedText, keyword)

RECURSIVE DedupFrom(_, _, _)
DedupFrom(s, i, acc) ==
  IF i > Len(s) THEN acc
  ELSE DedupFrom(s, i + 1,
                 IF \E j \in 1..Len(acc) : acc[j] = s[i] THEN acc ELSE Append(acc, s[i]))
\* [...new Set(s)]: the first occurrence of each element, in order
Dedup_Keep(s) == s
Dedup(s) == DedupFrom(s, 1, << >>)

ConfidencePerMatch == 300
FullConfidence == 1000

analyzeTextContent(t) ==
  LET normalizedText == normalizeText(t)
      hits == SelectSeq(EXPLICIT_KEYWORDS, LAMBDA e : KeywordHits(normalizedText, e.keyword))
      totalMatches == Len(hits)
  IN [detectedWords |-> Dedup([i \in 1..Len(hits) |-> hits[i].keyword]),
      categories |-> Dedup([i \in 1..Len(hits) |-> hits[i].category]),
      confidence |-> Min(totalMatches * ConfidencePerMatch, FullConfidence)]

\* lines 108-114: the result for an image without text
EmptyTextAnalysis ==
  [hasExplicitText |-> FALSE, confidence |-> 0, detectedWords |-> << >>,
   categories |-> << >>, extractedText |-> ""]

HasExplicitTextThreshold == 300

\* lines 132-141: the result of the catch block
OcrFailedTextAnalysis_Partial == [hasExplicitText |-> FALSE, confidence |-> 0, categories |-> << >>]
OcrFailedTextAnalysis ==
  [hasExplicitText |-> FALSE, confidence |-> 0, detectedWords |-> << >>,
   categories |-> << >>, extractedText |-> ""]

\* analyzeImageText(imageUrl), given how Tesseract.recognize settles:
\* [kind |-> "text", text |-> ...] or [kind |-> "fault", text |-> ""]
analyzeImageText_AnyWord(ocr) ==
  IF ocr.kind = "fault" THEN OcrFailedTextAnalysis
  ELSE LET extractedText == Trim(ocr.text)
       IN IF extractedText = "" THEN EmptyTextAnalysis
          ELSE LET a == analyzeTextContent(extractedText)
               IN [hasExplicitText |-> Len(a.detectedWords) > 0,
                   confidence |-> a.confidence,
                   detectedWords |-> a.detectedWords,
                   categories |-> a.categories,
                   extractedText |-> extractedText]
analyzeImageText(ocr) ==
  IF ocr.kind = "fault" THEN OcrFailedTextAnalysis
  ELSE LET extractedText == Trim(ocr.text)
       IN IF extractedText = "" THEN EmptyTextAnalysis
          ELSE LET a == analyzeTextContent(extractedText)
               IN [hasExplicitText |-> Len(a.detectedWords) > 0
                                       /\ a.confidence > HasExplicitTextThreshold,
                   confidence |-> a.confidence,
                   detectedWords |-> a.detectedWords,
                   categories |-> a.categories,
                   extractedText |-> extractedText]

(***************************************************************************)
(* skinDetection: the skin classifier.  A decoded image is the raw buffer  *)
(* sharp returns: width, height, channels and data, the bytes indexed from *)
(* 0.  The ratios of isSkinPixel are compared after cross-multiplying.     *)
(***************************************************************************)
Max3(a, b, c) == Max(a, Max(b, c))
Min3(a, b, c) == Min(a, Min(b, c))
Abs(a) == IF a < 0 THEN -a ELSE a

isSkinPixel(r, g, b) ==
  LET rgbClassifier ==
        /\ r > 95
        /\ g > 40 /\ g < 100
        /\ b > 20
        /\ Max3(r, g, b) - Min3(r, g, b) > 15
        /\ Abs(r - g) > 15
        /\ r > g
        /\ r > b
      sum == r + g + b
      \* (nr / ng) > 1.185, (r * b) / sum^2 > 0.107, (r * g) / sum^2 > 0.112
      normRgbClassifier ==
        /\ r * 1000 > 1185 * g
        /\ r * b * 1000 > 107 * sum * sum
        /\ r * g * 1000 > 112 * sum * sum
      mx == Max3(r, g, b)
      mn == Min3(r, g, b)
      dif == mx - mn
      \* h * dif, h being the hue in degrees; ((g - b) / dif) % 6 is
      \* (g - b) / dif, whose absolute value is at most 1
      hTimesDif ==
        IF dif = 0 THEN 0
        ELSE LET raw == IF mx = r THEN 60 * (g - b)
                        ELSE IF mx = g THEN 60 * ((b - r) + 2 * dif)
                        ELSE 60 * ((r - g) + 4 * dif)
             IN IF raw < 0 THEN raw + 360 * dif ELSE raw
      \* s = 1 - 3 * (mn / sum), compared as s * sum * 100
      sTimesSum100 == IF mx = 0 THEN 0 ELSE 100 * (sum - 3 * mn)
      hsvClassifier ==
        /\ hTimesDif > 0
        /\ hTimesDif < 35 * Max(dif, 1)
        /\ sTimesSum100 > 23 * sum
        /\ sTimesSum100 < 68 * sum
  IN IF sum = 0 THEN FALSE
     ELSE rgbClassifier \/ normRgbClassifier \/ hsvClassifier

\* The loop of lines 96-114, `for (i = 0; i < data.length; i += channels * 8)`.
\* Its k-th pass (k = 1, 2, ...) reads the pixel at byte offset
\* (k - 1) * channels * 8; after it totalPixels = k and skinPixels is the
\* number of skin pixels among the first k samples, and the loop breaks when
\* totalPixels > 100 and skinPixels / totalPixels > 0.35.  The scan is given
\* by the pass it ends with: the first that breaks, or the last of the buffer.
Stride(img) == img.channels * 8
SampleCount(img) == (img.length + Stride(img) - 1) \div Stride(img)

\* lines 97-103: whether the pixel read by the k-th pass is a skin pixel
SkinAt(img, k) ==
  isSkinPixel(img.data[(k - 1) * Stride(img)],
              img.data[(k - 1) * Stride(img) + 1],
              img.data[(k - 1) * Stride(img) + 2])

\* skinPixels after the k-th pass
SkinAmong(img, k) == Cardinality({j \in 1..k : SkinAt(img, j)})

\* line 111, after the k-th pass
Breaks_NoFloor(img, k) == SkinAmong(img, k) * 100 > 35 * k
Breaks(img, k) == k > 100 /\ SkinAmong(img, k) * 100 > 35 * k

\* the least of a non-empty set of passes
FirstOf(passes) == CHOOSE k \in passes : \A j \in passes : k <= j

\* the pass the loop ends with
LastPassAmong(breaks, n) == IF breaks = {} THEN n ELSE FirstOf(breaks)
LastPass(img) ==
  LastPassAmong({k \in 1..SampleCount(img) : Breaks(img, k)}, SampleCount(img))

\* lines 105-107: the coordinates pushed by the k-th pass
RegionAt(img, k) ==
  [x |-> (((k - 1) * Stride(img)) \div img.channels) % img.width,
   y |-> (((k - 1) * Stride(img)) \div img.channels) \div img.width]

\* the counters when the loop has ended with pass last
ScanUpTo(img, last) ==
  [totalPixels |-> last,
   skinPixels |-> SkinAmong(img, last),
   skinRegions |-> {RegionAt(img, k) : k \in {j \in 1..last : SkinAt(img, j)}}]

ScanBuffer(img) == ScanUpTo(img, LastPass(img))

\* Math.round(x * 100) / 100 of x = 100 * skinPixels / totalPixels, in hundredths
RoundedPercentage(skinPixels, totalPixels) ==
  IF totalPixels > 0
  THEN (2 * 10000 * skinPixels + totalPixels) \div (2 * totalPixels)
  ELSE 0

\* skinPercentage > p, the percentage being 100 * skin / total (0 of nothing)
Above(skin, total, p) == total > 0 /\ skin * 100 > p * total

\* lines 125-129
BaseConfidence(skin, total) ==
  IF Above(skin, total, 40) THEN 900
  ELSE IF Above(skin, total, 30) THEN 700
  ELSE IF Above(skin, total, 20) THEN 500
  ELSE 300

\* lines 116-138: the verdict from the counters of the loop
Verdict(skin, total, regions, hasLargeSkinRegions) ==
  [isExplicit |-> Above(skin, total, 35) \/ (Above(skin, total, 25) /\ hasLargeSkinRegions),
   skinPercentage |-> RoundedPercentage(skin, total),
   confidence |-> Min(IF hasLargeSkinRegions
                      THEN BaseConfidence(skin, total) + 200
                      ELSE BaseConfidence(skin, total), 1000)]

\* line 119
HasLargeSkinRegions_Never(skin, total, regions) == FALSE
HasLargeSkinRegions(skin, total, regions) == regions > 30 /\ Above(skin, total, 15)

ClassifyScan(skin, total, regions) ==
  Verdict(skin, total, regions, HasLargeSkinRegions(skin, total, regions))

ClassifyCounters(scan) ==
  ClassifyScan(scan.skinPixels, scan.totalPixels, Cardinality(scan.skinRegions))

\* lines 89-138: the verdict on a decoded buffer
ClassifyBuffer(img) == ClassifyCounters(ScanBuffer(img))

\* a buffer of width x height RGB pixels: the first 8 * skinSamples pixels
\* are skin coloured (200, 60, 30), the rest blue (0, 0, 255)
TestImage(width, height, skinSamples) ==
  [width |-> width, height |-> height, channels |-> 3,
   length |-> width * height * 3,
   data |-> [i \in 0..(width * height * 3 - 1) |->
               IF (i \div 3) \div 8 < skinSamples
               THEN (IF i % 3 = 0 THEN 200 ELSE IF i % 3 = 1 THEN 60 ELSE 30)
               ELSE (IF i % 3 = 2 THEN 255 ELSE 0)]]

\* the images the image source serves in the model: all skin (113 samples)
\* and 30 skin samples of 80
ImageNames == {"skin", "some"}
ImageOf(name) ==
  IF name = "skin" THEN TestImage(30, 30, 113)
  ELSE TestImage(32, 20, 30)

SkinVerdicts == [name \in ImageNames |-> ClassifyBuffer(ImageOf(name))]

Resolved(v) == [kind |-> "resolve", value |-> v]
Rejected == [kind |-> "reject", value |-> << >>]

\* lines 140-147: the result of the catch block
SkinAnalysisFailed == [isExplicit |-> FALSE, skinPercentage |-> 0, confidence |-> 0]

\* analyzeImageForExplicitContent(imageUrl), given how fetch and sharp
\* settle: [kind |-> "fault", image |-> ""] or [kind |-> "image", image |-> name];
\* the promise it returns
analyzeImageForExplicitContent(fetched) ==
  IF fetched.kind = "fault" THEN Resolved(SkinAnalysisFailed)
  ELSE Resolved(SkinVerdicts[fetched.image])

(***************************************************************************)
(* The text classifier alone: the OCR engine settles with a text (or       *)
(* faults) and analyzeImageText classifies it.                             *)
(***************************************************************************)
Sentence == "this is a nude and sexual image"

SampleTexts ==
  {Sentence, "This is a NUDE, and sexual image!\n", "a photo of my cat",
   "Sussex pornography", "  \n", "hot   adult film\nxxx"}

Vocabulary == {"nude", "sexual", "porn", "cat", "Sex!", "shit", "wound"}

RECURSIVE WordTexts(_)
WordTexts(n) ==
  IF n = 0 THEN {""}
  ELSE LET shorter == WordTexts(n - 1)
       IN shorter \cup {IF t = "" THEN w ELSE t \o " " \o w : t \in shorter, w \in Vocabulary}

OcrTextsAlone == SampleTexts \cup WordTexts(MaxWords)

OcrOutcomesAlone ==
  {[kind |-> "text", text |-> t] : t \in OcrTextsAlone} \cup {[kind |-> "fault", text |-> ""]}

NoOp == [op |-> "none", key |-> "", result |-> None, at |-> 0, before |-> << >>]

InitIdle ==
  /\ now = 0
  /\ ticks = 0
  /\ cache = << >>
  /\ fast = << >>
  /\ batch = << >>
  /\ lastOp = NoOp
  /\ written = << >>

InitText ==
  /\ InitIdle
  /\ text \in OcrOutcomesAlone
  /\ analysis = None
  /\ image = None
  /\ scanned = None

\* Tesseract.recognize settles and analyzeImageText returns
OcrReturns ==
  /\ analysis = None
  /\ analysis' = Some(analyzeImageText(text))
  /\ UNCHANGED <<now, ticks, cache, fast, batch, lastOp, written, text, image, scanned>>

NextText == OcrReturns

SpecText == InitText /\ [][NextText]_vars

\* C10 (as the spec states it): on "this is a nude and sexual image" the
\* classifier gives categories {nudity, sexual}, detected words including
\* nude and sexual, confidence min(2 x 0.3, 1) = 0.6 and hasExplicitText.
C10_AsStated ==
  (text = [kind |-> "text", text |-> Sentence] /\ analysis # None) =>
     LET r == analysis[1]
     IN /\ {r.categories[i] : i \in 1..Len(r.categories)} = {"nudity", "sexual"}
        /\ {"nude", "sexual"} \subseteq {r.detectedWords[i] : i \in 1..Len(r.detectedWords)}
        /\ r.confidence = 600
        /\ r.hasExplicitText

\* C10 (amended): on "this is a nude and sexual image" three catalog entries
\* hit (nude, and both sex and sexual of the category sexual, "sex" being a
\* substring of "sexual"), so the classifier gives categories
\* {nudity, sexual}, detected words nude, sex, sexual, confidence
\* min(3 x 0.3, 1) = 0.9 and hasExplicitText.
C10_SentenceClassified ==
  (text = [kind |-> "text", text |-> Sentence] /\ analysis # None) =>
     LET r == analysis[1]
     IN /\ {r.categories[i] : i \in 1..Len(r.categories)} = {"nudity", "sexual"}
        /\ r.detectedWords = <<"nude", "sex", "sexual">>
        /\ r.confidence = 900
        /\ r.hasExplicitText
        /\ r.extractedText = Sentence

C10_Witness ==
  /\ text = [kind |-> "text", text |-> Sentence]
  /\ analysis # None
  /\ analysis[1].hasExplicitText

(***************************************************************************)
(* The cache alone: a caller sets, gets, sweeps and clears entries while   *)
(* the clock advances.  `written` remembers the last setCache of each key  *)
(* still standing (clearCache forgets them all); lastOp is the last cache  *)
(* operation: its key, what it returned, when it ran and the entries it    *)
(* found.  Both are history, read only by the properties.                  *)
(***************************************************************************)
UserKeys == {"k1", "k2"}
UserValues == {"v1", "v2"}
UserTtlSeconds == {3, 300}

\* by how much the clock advances in one step: to just past an instant, by
\* the shorter TTL, by the longer TTL
TickSteps == {1, 3000, 300000}

Tick(d) ==
  /\ ticks < MaxTicks
  /\ now' = now + d
  /\ ticks' = ticks + 1
  /\ UNCHANGED <<cache, fast, batch, lastOp, written, text, analysis, image, scanned>>

InitCache ==
  /\ InitIdle
  /\ text = [kind |-> "fault", text |-> ""]
  /\ analysis = None
  /\ image = None
  /\ scanned = None

SetCache(k, v, ttl) ==
  /\ cache' = safeSetCache(cache, k, v, ttl, now, 0)
  /\ written' = (k :> [value |-> v, ttl |-> ttl, at |-> now]) @@ written
  /\ lastOp' = [op |-> "set", key |-> k, result |-> None, at |-> now, before |-> << >>]
  /\ UNCHANGED <<now, ticks, fast, batch, text, analysis, image, scanned>>

GetCache(k) ==
  LET g == safeGetCache(cache, k, now)
  IN /\ cache' = g.cache
     /\ lastOp' = [op |-> "get", key |-> k, result |-> g.value, at |-> now,
                   before |-> [x \in DOMAIN cache \cap {k} |-> cache[x]]]
     /\ UNCHANGED <<now, ticks, fast, batch, written, text, analysis, image, scanned>>

ClearExpiredCache ==
  /\ cache' = clearExpiredCache(cache, now)
  /\ lastOp' = [op |-> "clearExpired", key |-> "", result |-> None, at |-> now,
                before |-> cache]
  /\ UNCHANGED <<now, ticks, fast, batch, written, text, analysis, image, scanned>>

ClearCache ==
  /\ cache' = clearCache(cache)
  /\ written' = << >>
  /\ lastOp' = [op |-> "clear", key |-> "", result |-> None, at |-> now, before |-> << >>]
  /\ UNCHANGED <<now, ticks, fast, batch, text, analysis, image, scanned>>

NextCache ==
  \/ \E k \in UserKeys, v \in UserValues, ttl \in UserTtlSeconds : SetCache(k, v, ttl)
  \/ \E k \in UserKeys : GetCache(k)
  \/ ClearExpiredCache
  \/ ClearCache
  \/ \E d \in TickSteps : Tick(d)

SpecCache == InitCache /\ [][NextCache]_vars

\* the time between the last setCache of the key of the last getCache and
\* that getCache
ElapsedAtGet == lastOp.at - written[lastOp.key].at

\* C6 (as the spec states it): getCache(k) returns v right after
\* setCache(k, v, ttl), and once ttl seconds have elapsed since the set it
\* returns null and removes the entry.
C6_AsStated ==
  (lastOp.op = "get" /\ lastOp.key \in DOMAIN written) =>
     LET w == written[lastOp.key]
     IN IF ElapsedAtGet >= w.ttl * 1000
        THEN lastOp.result = None /\ lastOp.key \notin DOMAIN cache
        ELSE lastOp.result = Some(w.value)

\* C6 (amended): getCache(k) returns v right after setCache(k, v, ttl) and
\* until exactly ttl seconds have elapsed, that instant included; once more
\* than ttl seconds have elapsed since the set (and k was not set again) it
\* returns null and k's entry is no longer in the cache.
C6_TtlSetGet ==
  (lastOp.op = "get" /\ lastOp.key \in DOMAIN written) =>
     LET w == written[lastOp.key]
     IN IF ElapsedAtGet > w.ttl * 1000
        THEN lastOp.result = None /\ lastOp.key \notin DOMAIN cache
        ELSE lastOp.result = Some(w.value)

\* a getCache more than ttl seconds after the set found the entry still
\* stored, returned null and removed it
C6_Witness ==
  /\ lastOp.op = "get"
  /\ lastOp.key \in DOMAIN written
  /\ ElapsedAtGet > written[lastOp.key].ttl * 1000
  /\ lastOp.key \in DOMAIN lastOp.before
  /\ lastOp.result = None
  /\ lastOp.key \notin DOMAIN cache

\* C7: clearExpiredCache() deletes exactly the entries whose expiry has
\* passed: an entry unexpired at the sweep is unchanged and getCache still
\* returns it, and no expired entry is left.
C7_SweepExact ==
  lastOp.op = "clearExpired" =>
     /\ DOMAIN cache \subseteq DOMAIN lastOp.before
     /\ \A k \in DOMAIN lastOp.before :
          IF lastOp.at > lastOp.before[k].expiry
          THEN k \notin DOMAIN cache
          ELSE /\ k \in DOMAIN cache
               /\ cache[k] = lastOp.before[k]
               /\ safeGetCache(cache, k, lastOp.at).value = Some(lastOp.before[k].data)

\* a sweep that found an expired and an unexpired entry
C7_Witness ==
  /\ lastOp.op = "clearExpired"
  /\ \E k \in DOMAIN lastOp.before : lastOp.at > lastOp.before[k].expiry /\ k \notin DOMAIN cache
  /\ \E k \in DOMAIN lastOp.before : lastOp.at <= lastOp.before[k].expiry /\ k \in DOMAIN cache

(***************************************************************************)
(* combinedImageAnalysis: analyzeImageFast.                                *)
(***************************************************************************)
\* String.prototype.concat over Array.prototype.join(sep)
RECURSIVE JoinFrom(_, _, _)
JoinFrom(strings, i, sep) ==
  IF i > Len(strings) THEN ""
  ELSE IF i = Len(strings) THEN strings[i]
  ELSE strings[i] \o sep \o JoinFrom(strings, i + 1, sep)
Join(strings, sep) == JoinFrom(strings, 1, sep)

\* line 24
imageCacheKey_NoUrl(imageUrl) == "image-analysis:"
imageCacheKey(imageUrl) == "image-analysis:" \o imageUrl
\* line 117
batchCacheKey(imageUrls) == "batch-image-analysis:" \o Join(imageUrls, ",")

ResultTtl == 300
FailedTtl == 60
OcrTimeoutMs == 3000
batchSize_Three == 2 + 1
batchSize == 2

\* line 38
SkipsOcr_AlwaysOcr(skinAnalysis) == FALSE
SkipsOcr(skinAnalysis) == skinAnalysis.isExplicit /\ skinAnalysis.confidence > 700

\* lines 45-51, 64-70 and 96-102: the three empty text analyses
SkippedTextAnalysis ==
  [hasExplicitText |-> FALSE, confidence |-> 0, detectedWords |-> << >>,
   categories |-> << >>, extractedText |-> ""]
TimeoutTextAnalysis ==
  [hasExplicitText |-> FALSE, confidence |-> 0, detectedWords |-> << >>,
   categories |-> << >>, extractedText |-> ""]
FailedTextAnalysis ==
  [hasExplicitText |-> FALSE, confidence |-> 0, detectedWords |-> << >>,
   categories |-> << >>, extractedText |-> ""]

\* lines 40-52
SkippedOcrResult(imageUrl, skinAnalysis) ==
  [url |-> imageUrl, isExplicit |-> TRUE,
   skinPercentage |-> skinAnalysis.skinPercentage,
   confidence |-> skinAnalysis.confidence,
   textAnalysis |-> SkippedTextAnalysis]

\* lines 8-15 and 59-71: the promise withTimeout returns settles as the
\* first of its two promises does, and the catch replaces a rejection
TextOrFallback(race) ==
  IF race.kind = "reject" THEN TimeoutTextAnalysis ELSE race.value

\* line 74, Math.max(skin confidence, text confidence * 0.8)
combinedConfidence_Min(skinAnalysis, textAnalysis) ==
  Min(skinAnalysis.confidence, (textAnalysis.confidence * 8) \div 10)
combinedConfidence(skinAnalysis, textAnalysis) ==
  Max(skinAnalysis.confidence, (textAnalysis.confidence * 8) \div 10)

\* lines 73-83
CombinedResult_SkinOnly(imageUrl, skinAnalysis, textAnalysis) ==
  [url |-> imageUrl,
   isExplicit |-> skinAnalysis.isExplicit,
   skinPercentage |-> skinAnalysis.skinPercentage,
   confidence |-> combinedConfidence(skinAnalysis, textAnalysis),
   textAnalysis |-> textAnalysis]
CombinedResult(imageUrl, skinAnalysis, textAnalysis) ==
  [url |-> imageUrl,
   isExplicit |-> skinAnalysis.isExplicit
                  \/ (textAnalysis.hasExplicitText /\ textAnalysis.confidence > 400),
   skinPercentage |-> skinAnalysis.skinPercentage,
   confidence |-> combinedConfidence(skinAnalysis, textAnalysis),
   textAnalysis |-> textAnalysis]

\* lines 91-103
FailedResult(imageUrl) ==
  [url |-> imageUrl, isExplicit |-> FALSE, skinPercentage |-> 0, confidence |-> 0,
   textAnalysis |-> FailedTextAnalysis]

\* how the collaborators settle in the model: the image source fails or
\* serves one of the images, the OCR engine fails or returns a text
FetchOutcomes ==
  {[kind |-> "fault", image |-> ""]} \cup {[kind |-> "image", image |-> n] : n \in ImageNames}
OcrOutcomes ==
  {[kind |-> "fault", text |-> ""]} \cup {[kind |-> "text", text |-> t] : t \in {"porn"}}

\* analyzeImageText on each of them
TextVerdicts == [ocr \in OcrOutcomes |-> analyzeImageText(ocr)]

\* by how much the clock advances in one step: by the OCR timeout, by the
\* TTL of a result
ClockSteps == {3000, 300000}

(***************************************************************************)
(* A call of analyzeImageFast is a record of `fast`, and its position      *)
(* there is its id:                                                        *)
(*   url, parent, idx  the URL; the analyzeImagesBatch call it belongs to  *)
(*                     (0: called directly) and its place in that list     *)
(*   pc                "skin": awaiting analyzeImageForExplicitContent;    *)
(*                     "ocr": awaiting withTimeout; "done": returned       *)
(*   skin              the skin analysis, once there                      *)
(*   deadline          when the timer of withTimeout is due                *)
(*   ocrOp             the promise of analyzeImageText: "none" (never      *)
(*                     called), "running" or "settled"                     *)
(*   result            the ImageAnalysisDetail returned                    *)
(* and, as history: seen (the entry physically stored under its key when   *)
(* it was called), startedAt, hit (it returned the cached value), fetches  *)
(* and ocrs (how often it invoked each collaborator), fetchFault (the      *)
(* image source failed), timedOut (the timer won the race) and ttl (the    *)
(* TTL in seconds it stored its result with, 0: it stored nothing).        *)
(***************************************************************************)
NewCall(imageUrl, parent, idx, seen) ==
  [url |-> imageUrl, parent |-> parent, idx |-> idx, pc |-> "skin",
   skin |-> None, deadline |-> 0, ocrOp |-> "none", result |-> None,
   seen |-> seen, startedAt |-> now, hit |-> FALSE, fetches |-> 0, ocrs |-> 0,
   fetchFault |-> FALSE, timedOut |-> FALSE, ttl |-> 0]

\* lines 20-35, up to the first await: st is the cache and the calls so far
BeginFast(st, imageUrl, parent, idx) ==
  LET cacheKey == imageCacheKey(imageUrl)
      seen == IF cacheKey \in DOMAIN st.cache THEN Some(st.cache[cacheKey]) ELSE None
      cachedResult == safeGetCache(st.cache, cacheKey, now)
      call == NewCall(imageUrl, parent, idx, seen)
  IN IF cachedResult.value # None
     THEN [cache |-> cachedResult.cache,
           fast |-> Append(st.fast, [call EXCEPT !.pc = "done", !.hit = TRUE,
                                                 !.result = cachedResult.value])]
     ELSE [cache |-> cachedResult.cache,
           fast |-> Append(st.fast, [call EXCEPT !.fetches = 1])]

\* the requests of callers that have not returned yet
Pending ==
  Cardinality({c \in 1..Len(fast) : fast[c].parent = 0 /\ fast[c].pc # "done"})
  + Cardinality({b \in 1..Len(batch) : batch[b].pc # "done"})

\* a caller calls analyzeImageFast(imageUrl)
AnalyzeImageFast(imageUrl) ==
  /\ Len(fast) < MaxCalls
  /\ Pending < MaxPending
  /\ LET st == BeginFast([cache |-> cache, fast |-> fast], imageUrl, 0, 0)
     IN cache' = st.cache /\ fast' = st.fast
  /\ UNCHANGED <<now, ticks, batch, lastOp, written, text, analysis, image, scanned>>

\* call c stores its result and returns it
Returns(c, call, result, ttl) ==
  /\ cache' = safeSetCache(cache, imageCacheKey(call.url), result, ttl, now, c)
  /\ fast' = [fast EXCEPT ![c] = [call EXCEPT !.pc = "done", !.result = Some(result),
                                             !.ttl = ttl]]

\* lines 35-56 and 89-107: analyzeImageForExplicitContent settles
FetchSettles(c, fetched) ==
  /\ fast[c].pc = "skin"
  /\ LET settled == analyzeImageForExplicitContent(fetched)
         call == [fast[c] EXCEPT !.fetchFault = (fetched.kind = "fault")]
     IN IF settled.kind = "reject"
        THEN Returns(c, call, FailedResult(call.url), FailedTtl)
        ELSE LET skinAnalysis == settled.value
                 withSkin == [call EXCEPT !.skin = Some(skinAnalysis)]
             IN IF SkipsOcr(skinAnalysis)
                THEN Returns(c, withSkin, SkippedOcrResult(call.url, skinAnalysis), ResultTtl)
                ELSE /\ fast' = [fast EXCEPT ![c] =
                                   [withSkin EXCEPT !.pc = "ocr", !.ocrs = 1,
                                                    !.ocrOp = "running",
                                                    !.deadline = now + OcrTimeoutMs]]
                     /\ cache' = cache
  /\ UNCHANGED <<now, ticks, batch, lastOp, written, text, analysis, image, scanned>>

\* lines 61 and 73-87: analyzeImageText settles before the timer fires
OcrSettles(c, ocr) ==
  /\ fast[c].pc = "ocr"
  /\ LET textAnalysis == TextOrFallback(Resolved(TextVerdicts[ocr]))
         call == [fast[c] EXCEPT !.ocrOp = "settled"]
     IN Returns(c, call, CombinedResult(call.url, call.skin[1], textAnalysis), ResultTtl)
  /\ UNCHANGED <<now, ticks, batch, lastOp, written, text, analysis, image, scanned>>

\* lines 12 and 62-87: the timer of withTimeout fires first
TimerFires_Never(c) == FALSE /\ UNCHANGED vars
TimerFires(c) ==
  /\ fast[c].pc = "ocr"
  /\ now >= fast[c].deadline
  /\ LET textAnalysis == TextOrFallback(Rejected)
         call == [fast[c] EXCEPT !.timedOut = TRUE]
     IN Returns(c, call, CombinedResult(call.url, call.skin[1], textAnalysis), ResultTtl)
  /\ UNCHANGED <<now, ticks, batch, lastOp, written, text, analysis, image, scanned>>

\* the analyzeImageText the timer outran settles at last: nobody awaits it
AbandonedOcrSettles_Late(c) ==
  /\ fast[c].pc = "done"
  /\ fast[c].ocrOp = "running"
  /\ \E ocr \in OcrOutcomes :
       LET textAnalysis == TextOrFallback(Resolved(TextVerdicts[ocr]))
           call == [fast[c] EXCEPT !.ocrOp = "settled"]
       IN Returns(c, call, CombinedResult(call.url, call.skin[1], textAnalysis), ResultTtl)
  /\ UNCHANGED <<now, ticks, batch, lastOp, written, text, analysis, image, scanned>>
AbandonedOcrSettles(c) ==
  /\ fast[c].pc = "done"
  /\ fast[c].ocrOp = "running"
  /\ fast' = [fast EXCEPT ![c].ocrOp = "settled"]
  /\ UNCHANGED <<now, ticks, cache, batch, lastOp, written, text, analysis, image, scanned>>

(***************************************************************************)
(* combinedImageAnalysis: analyzeImagesBatch.  A call is a record of       *)
(* `batch`, its position there its id: urls; pc ("awaiting": at the        *)
(* Promise.all of a chunk, "done": returned); i, the loop variable, the    *)
(* 0-based place of the chunk awaited; results; result, the                *)
(* ExplicitContentAnalysis returned; and, as history, hit.                 *)
(***************************************************************************)
RECURSIVE MaxOfFrom(_, _)
MaxOfFrom(numbers, i) ==
  IF i > Len(numbers) THEN 0
  ELSE IF i = Len(numbers) THEN numbers[i]
  ELSE Max(numbers[i], MaxOfFrom(numbers, i + 1))
\* Math.max(...numbers) of a non-empty array
MaxOf_First(numbers) == numbers[1]
MaxOf(numbers) == MaxOfFrom(numbers, 1)

RECURSIVE FlattenFrom(_, _)
FlattenFrom(seqs, i) ==
  IF i > Len(seqs) THEN << >> ELSE seqs[i] \o FlattenFrom(seqs, i + 1)

\* lines 140-170
Aggregate(results) ==
  LET explicitImages == SelectSeq(results, LAMBDA d : d.isExplicit)
      imagesWithExplicitText ==
        SelectSeq(results, LAMBDA d : d.textAnalysis.hasExplicitText
                                      /\ d.textAnalysis.confidence > 300)
      allCategories ==
        Dedup(FlattenFrom([k \in 1..Len(results) |-> results[k].textAnalysis.categories], 1))
      hasExplicitContent == Len(explicitImages) > 0
      hasExplicitText == Len(imagesWithExplicitText) > 0
      overallConfidence ==
        IF Len(explicitImages) > 0
        THEN MaxOf([k \in 1..Len(explicitImages) |-> explicitImages[k].confidence])
        ELSE 0
      textConfidence ==
        IF Len(imagesWithExplicitText) > 0
        THEN MaxOf([k \in 1..Len(imagesWithExplicitText) |->
                      imagesWithExplicitText[k].textAnalysis.confidence])
        ELSE 0
  IN [hasExplicitContent |-> hasExplicitContent \/ hasExplicitText,
      confidence |-> Max(overallConfidence, textConfidence),
      details |-> results,
      hasExplicitText |-> hasExplicitText,
      textConfidence |-> textConfidence,
      detectedCategories |-> allCategories]

\* the call of analyzeImageFast that batch call b made for the k-th URL
ChildAt(calls, b, k) == CHOOSE c \in 1..Len(calls) : calls[c].parent = b /\ calls[c].idx = k

\* the last place (1-based) of the chunk that starts at the 0-based place i
ChunkEnd(imageUrls, i) == Min(i + batchSize, Len(imageUrls))

\* lines 131-132, batch.map(url => analyzeImageFast(url)): the calls of one
\* chunk begin one after the other, each up to its first await
RECURSIVE LaunchFrom(_, _, _, _, _)
LaunchFrom(st, imageUrls, b, k, last) ==
  IF k > last THEN st
  ELSE LaunchFrom(BeginFast(st, imageUrls[k], b, k), imageUrls, b, k + 1, last)
LaunchChunk(st, imageUrls, b, i) == LaunchFrom(st, imageUrls, b, i + 1, ChunkEnd(imageUrls, i))

\* lines 140-174: aggregate, store, return
Finished(call, key, c) ==
  LET batchResult == Aggregate(call.results)
  IN [cache |-> safeSetCache(c, key, batchResult, ResultTtl, now, 0),
      call |-> [call EXCEPT !.pc = "done", !.result = Some(batchResult)]]

\* a caller calls analyzeImagesBatch(imageUrls): lines 113-134, up to the
\* first await (or to the end, for an empty list or a cached result)
AnalyzeImagesBatch(imageUrls) ==
  /\ Len(batch) < MaxBatch
  /\ Len(fast) + Len(imageUrls) <= MaxCalls
  /\ Pending < MaxPending
  /\ LET b == Len(batch) + 1
         batchCacheKey1 == batchCacheKey(imageUrls)
         cachedBatchResult == safeGetCache(cache, batchCacheKey1, now)
         call == [urls |-> imageUrls, pc |-> "awaiting", i |-> 0, results |-> << >>,
                  hit |-> FALSE, result |-> None]
     IN IF cachedBatchResult.value # None
        THEN /\ batch' = Append(batch, [call EXCEPT !.pc = "done", !.hit = TRUE,
                                                    !.result = cachedBatchResult.value])
             /\ cache' = cachedBatchResult.cache
             /\ fast' = fast
        ELSE IF Len(imageUrls) = 0
        THEN LET done == Finished(call, batchCacheKey1, cachedBatchResult.cache)
             IN /\ batch' = Append(batch, done.call)
                /\ cache' = done.cache
                /\ fast' = fast
        ELSE LET st == LaunchChunk([cache |-> cachedBatchResult.cache, fast |-> fast],
                                   imageUrls, b, 0)
             IN /\ batch' = Append(batch, call)
                /\ cache' = st.cache
                /\ fast' = st.fast
  /\ UNCHANGED <<now, ticks, lastOp, written, text, analysis, image, scanned>>

\* lines 134-174: the Promise.all of the chunk awaited is fulfilled
BatchResumes(b) ==
  /\ batch[b].pc = "awaiting"
  /\ LET call == batch[b]
         chunk == (call.i + 1)..ChunkEnd(call.urls, call.i)
     IN /\ \A k \in chunk : fast[ChildAt(fast, b, k)].pc = "done"
        /\ LET batchResults ==
                 [j \in 1..Cardinality(chunk) |-> fast[ChildAt(fast, b, call.i + j)].result[1]]
           IN \E pushed \in {[call EXCEPT !.results = call.results \o batchResults,
                                          !.i = call.i + batchSize]} :
                IF pushed.i < Len(call.urls)
                THEN \E st \in {LaunchChunk([cache |-> cache, fast |-> fast],
                                            call.urls, b, pushed.i)} :
                       /\ batch' = [batch EXCEPT ![b] = pushed]
                       /\ cache' = st.cache
                       /\ fast' = st.fast
                ELSE \E done \in {Finished(pushed, batchCacheKey(call.urls), cache)} :
                       /\ batch' = [batch EXCEPT ![b] = done.call]
                       /\ cache' = done.cache
                       /\ fast' = fast
  /\ UNCHANGED <<now, ticks, lastOp, written, text, analysis, image, scanned>>

(***************************************************************************)
(* The orchestrators with their collaborators: callers call                *)
(* analyzeImageFast and analyzeImagesBatch, the image source serves an     *)
(* image or fails, the OCR engine returns a text, fails or is outrun by    *)
(* the timer, and the clock advances.                                      *)
(***************************************************************************)
TopUrls == {"a"}
UrlLists == {<< >>, <<"a", "b">>, <<"a,b">>, <<"a", "a", "b">>}

Init ==
  /\ InitIdle
  /\ text = [kind |-> "fault", text |-> ""]
  /\ analysis = None
  /\ image = None
  /\ scanned = None

Next ==
  \/ \E imageUrl \in TopUrls : AnalyzeImageFast(imageUrl)
  \/ \E c \in 1..Len(fast), fetched \in FetchOutcomes : FetchSettles(c, fetched)
  \/ \E c \in 1..Len(fast), ocr \in OcrOutcomes : OcrSettles(c, ocr)
  \/ \E c \in 1..Len(fast) : TimerFires(c)
  \/ \E c \in 1..Len(fast) : AbandonedOcrSettles(c)
  \/ \E imageUrls \in UrlLists : AnalyzeImagesBatch(imageUrls)
  \/ \E b \in 1..Len(batch) : BatchResumes(b)
  \/ \E d \in ClockSteps : Tick(d)

Spec == Init /\ [][Next]_vars

(***************************************************************************)
(* Properties of the orchestrators.                                        *)
(***************************************************************************)
Calls == 1..Len(fast)
Batches == 1..Len(batch)

\* the empty/zero TextAnalysisResult of the specification
ZeroTextAnalysis ==
  [hasExplicitText |-> FALSE, confidence |-> 0, detectedWords |-> << >>,
   categories |-> << >>, extractedText |-> ""]

\* the call found, under its key, an entry stored by an analyzeImageFast call
\* and not expired yet
SawFreshEntry(call) ==
  /\ call.seen # None
  /\ call.seen[1].by \in Calls
  /\ call.startedAt <= call.seen[1].expiry

\* C1: a call of analyzeImageFast(url) made while the entry an earlier call
\* stored for url is unexpired returns that call's result and invokes
\* neither the image source nor the OCR engine.
C1_Idempotent ==
  \A c \in Calls :
    SawFreshEntry(fast[c]) =>
      /\ fast[c].pc = "done"
      /\ fast[fast[c].seen[1].by].pc = "done"
      /\ fast[fast[c].seen[1].by].url = fast[c].url
      /\ fast[c].result = fast[fast[c].seen[1].by].result
      /\ fast[c].fetches = 0
      /\ fast[c].ocrs = 0
      /\ fast[c].ocrOp = "none"

\* a second call returned the first one's result when the entry was at the
\* last instant of its TTL
C1_Witness ==
  \E c \in Calls :
    /\ SawFreshEntry(fast[c])
    /\ fast[c].startedAt = fast[c].seen[1].expiry
    /\ fast[c].pc = "done"
    /\ fast[c].result = fast[fast[c].seen[1].by].result

\* the call found a skin verdict that is explicit with confidence > 0.7
ConfidentlyExplicit(call) ==
  /\ call.skin # None
  /\ call.skin[1].isExplicit
  /\ call.skin[1].confidence > 700

\* C2: in a call that misses the cache and whose skin verdict is explicit
\* with confidence > 0.7, the OCR engine is never invoked, textAnalysis is
\* the empty/zero value, and the result is stored under the URL's key with
\* a TTL of 300 seconds: all of it in the step in which the verdict arrives.
C2_ShortCircuit ==
  [][\A c \in Calls :
       (fast[c].pc = "skin" /\ ConfidentlyExplicit(fast'[c])) =>
          /\ fast'[c].pc = "done"
          /\ fast'[c].ocrs = 0
          /\ fast'[c].ocrOp = "none"
          /\ fast'[c].result[1].textAnalysis = ZeroTextAnalysis
          /\ fast'[c].result[1].isExplicit
          /\ fast'[c].result[1].skinPercentage = fast'[c].skin[1].skinPercentage
          /\ fast'[c].result[1].confidence = fast'[c].skin[1].confidence
          /\ imageCacheKey(fast[c].url) \in DOMAIN cache'
          /\ cache'[imageCacheKey(fast[c].url)].data = fast'[c].result[1]
          /\ cache'[imageCacheKey(fast[c].url)].expiry = now + 300 * 1000]_vars

\* once returned, such a call never invokes the OCR engine (the state form
\* of C2, for the calls that have returned)
C2_Witness ==
  \E c \in Calls :
    /\ fast[c].pc = "done"
    /\ ~fast[c].hit
    /\ ConfidentlyExplicit(fast[c])
    /\ fast[c].ocrs = 0
    /\ fast[c].ttl = 300
    /\ imageCacheKey(fast[c].url) \in DOMAIN cache
    /\ cache[imageCacheKey(fast[c].url)].data = fast[c].result[1]

\* C3: when the 3000 ms timer fires before the OCR pipeline has completed,
\* the call returns at that point with the empty/zero textAnalysis and with
\* the skin classifier's isExplicit, skinPercentage and confidence.
C3_OcrTimeout ==
  \A c \in Calls :
    fast[c].timedOut =>
      /\ fast[c].pc = "done"
      /\ fast[c].startedAt + 3000 <= now
      /\ fast[c].result[1].textAnalysis = ZeroTextAnalysis
      /\ fast[c].result[1].isExplicit = fast[c].skin[1].isExplicit
      /\ fast[c].result[1].skinPercentage = fast[c].skin[1].skinPercentage
      /\ fast[c].result[1].confidence = fast[c].skin[1].confidence
      /\ fast[c].result[1].url = fast[c].url

\* a call returned on the timer, with an explicit skin verdict, while its
\* OCR was still running
C3_Witness ==
  \E c \in Calls :
    /\ fast[c].timedOut
    /\ fast[c].pc = "done"
    /\ fast[c].ocrOp = "running"
    /\ fast[c].skin[1].isExplicit
    /\ fast[c].result[1].confidence = 700

KidsOf(b) == {c \in Calls : fast[c].parent = b}

\* C4: one analyzeImagesBatch call works through its URLs in consecutive
\* chunks of 2; no analysis of a later chunk has started while one of an
\* earlier chunk is in progress, so at most 2 of its analyses are in
\* progress at any moment.
C4_BoundedConcurrency ==
  \A b \in Batches :
    /\ Cardinality({c \in KidsOf(b) : fast[c].pc # "done"}) <= 2
    /\ \A c1, c2 \in KidsOf(b) :
         /\ (fast[c1].idx = fast[c2].idx) => c1 = c2
         /\ ((fast[c1].idx - 1) \div 2 < (fast[c2].idx - 1) \div 2) => fast[c1].pc = "done"
    /\ \E m \in 0..Len(batch[b].urls) :
         /\ {fast[c].idx : c \in KidsOf(b)} = 1..m
         /\ m = Len(batch[b].urls) \/ m % 2 = 0
    /\ \A c \in KidsOf(b) : fast[c].url = batch[b].urls[fast[c].idx]

\* the analysis of the third URL is in progress, those of the first chunk
\* having returned
C4_Witness ==
  \E b \in Batches : \E c \in KidsOf(b) :
    /\ fast[c].idx = 3
    /\ fast[c].pc # "done"
    /\ Cardinality(KidsOf(b)) = 3

\* C5 (as the spec states it): the details of the result of
\* analyzeImagesBatch(urls) are as many as urls, and details[i].url = urls[i].
C5_OrderPreserved ==
  \A b \in Batches :
    batch[b].pc = "done" =>
      /\ Len(batch[b].result[1].details) = Len(batch[b].urls)
      /\ \A i \in 1..Len(batch[b].urls) :
           i <= Len(batch[b].result[1].details)
           => batch[b].result[1].details[i].url = batch[b].urls[i]

IsFullText(t) ==
  /\ DOMAIN t = {"hasExplicitText", "confidence", "detectedWords", "categories", "extractedText"}
  /\ t.hasExplicitText \in BOOLEAN
  /\ t.confidence \in 0..1000
  /\ DOMAIN t.detectedWords = 1..Len(t.detectedWords)
  /\ DOMAIN t.categories = 1..Len(t.categories)

IsFullDetail(d) ==
  /\ DOMAIN d = {"url", "isExplicit", "skinPercentage", "confidence", "textAnalysis"}
  /\ d.isExplicit \in BOOLEAN
  /\ d.skinPercentage \in 0..10000
  /\ d.confidence \in 0..1000
  /\ IsFullText(d.textAnalysis)

IsFullBatchResult(r) ==
  /\ DOMAIN r = {"hasExplicitContent", "confidence", "details", "hasExplicitText",
                 "textConfidence", "detectedCategories"}
  /\ r.hasExplicitContent \in BOOLEAN
  /\ r.hasExplicitText \in BOOLEAN
  /\ r.confidence \in 0..1000
  /\ r.textConfidence \in 0..1000
  /\ \A i \in 1..Len(r.details) : IsFullDetail(r.details[i])

\* C8: whatever the collaborators do (the fetch or decode fails, the OCR
\* fails, the OCR is outrun by the timer), a call of analyzeImageFast(url)
\* ends by returning a full ImageAnalysisDetail for url and a call of
\* analyzeImagesBatch by returning a full ExplicitContentAnalysis; neither
\* ends in a raised error.
C8_NoFaultEscapes ==
  /\ \A c \in Calls :
       /\ fast[c].pc \in {"skin", "ocr", "done"}
       /\ fast[c].pc = "done" =>
            /\ fast[c].result # None
            /\ IsFullDetail(fast[c].result[1])
            /\ fast[c].result[1].url = fast[c].url
  /\ \A b \in Batches :
       /\ batch[b].pc \in {"awaiting", "done"}
       /\ batch[b].pc = "done" =>
            /\ batch[b].result # None
            /\ IsFullBatchResult(batch[b].result[1])

\* a batch returned whose analyses met a failed fetch, a failed OCR and an
\* OCR outrun by the timer
C8_Witness ==
  \E b \in Batches :
    /\ batch[b].pc = "done"
    /\ ~batch[b].hit
    /\ \E c \in KidsOf(b) : fast[c].fetchFault
    /\ \E c \in KidsOf(b) : fast[c].timedOut
    /\ \E c \in KidsOf(b) :
         /\ fast[c].ocrs = 1
         /\ ~fast[c].timedOut
         /\ fast[c].result[1].textAnalysis.extractedText = ""

\* the fully zeroed/false ImageAnalysisDetail
ZeroDetail(url) ==
  [url |-> url, isExplicit |-> FALSE, skinPercentage |-> 0, confidence |-> 0,
   textAnalysis |-> ZeroTextAnalysis]

\* C9 (as the spec states it): when the image source fails for a URL, the
\* zeroed ImageAnalysisDetail that analyzeImageFast returns is stored with a
\* TTL of 60 seconds, not 300.
C9_FailureCachedBriefly ==
  \A c \in Calls :
    (fast[c].pc = "done" /\ fast[c].fetchFault /\ fast[c].result = Some(ZeroDetail(fast[c].url)))
      => fast[c].ttl = 60

\* C11 (as the spec states it): analyzeImagesBatch(urls) returns a cached
\* result only if an earlier analyzeImagesBatch call with the identical
\* ordered list of URLs computed and stored that result.
C11_KeyedByOrderedList ==
  \A b \in Batches :
    batch[b].hit =>
      \E b0 \in 1..(b - 1) :
        /\ ~batch[b0].hit
        /\ batch[b0].urls = batch[b].urls
        /\ batch[b0].result = batch[b].result

\* when the result that call c returned was computed, for a call that
\* returned the entry it found: that entry's expiry less the TTL its
\* writer stored it with
ComputedAt(calls, c) ==
  calls[c].seen[1].expiry - calls[calls[c].seen[1].by].ttl * MsPerSecond

\* batch call b returns in this step
BatchReturnsNow(b) ==
  /\ batch'[b].pc = "done"
  /\ b <= Len(batch) => batch[b].pc # "done"

\* C12 (as the spec states it): no ImageAnalysisDetail handed to a caller
\* is older, at the moment it is returned, than the TTL it was cached with;
\* stated for the details whose age the history records: those an
\* analyzeImageFast call took from the cache, returned by it and returned
\* in the details of the analyzeImagesBatch call that made it.
C12_NoStaleDetail ==
  [][/\ \A c \in 1..Len(fast') :
          (c > Len(fast) /\ fast'[c].hit) =>
             now - ComputedAt(fast', c) <= fast'[fast'[c].seen[1].by].ttl * MsPerSecond
     /\ \A b \in 1..Len(batch') :
          (BatchReturnsNow(b) /\ ~batch'[b].hit) =>
             \A c \in 1..Len(fast') :
               (fast'[c].parent = b /\ fast'[c].hit) =>
                  now - ComputedAt(fast', c) <= fast'[fast'[c].seen[1].by].ttl * MsPerSecond]_vars

(***************************************************************************)
(* The skin classifier alone: sharp hands over a raw buffer and the loop   *)
(* of analyzeImageForExplicitContent scans it.  `image` is the buffer,     *)
(* `scanned` what the scan left: the counters of the loop, whether it ended   *)
(* by the early exit, the byte offsets it read, and the verdict.           *)
(***************************************************************************)
\* a raw buffer of width x height pixels of the given channels in which the
\* samples the loop takes (one every channels * 8 bytes) are blue (0, 0, 255)
\* for the first blueLead of them, then skin coloured (200, 60, 30) for
\* skinRun of them, then blue again
SampledImage(width, height, channels, blueLead, skinRun) ==
  [width |-> width, height |-> height, channels |-> channels,
   length |-> width * height * channels,
   data |-> [i \in 0..(width * height * channels - 1) |->
               IF i \div (channels * 8) >= blueLead /\ i \div (channels * 8) < blueLead + skinRun
               THEN (IF i % (channels * 8) = 0 THEN 200
                     ELSE IF i % (channels * 8) = 1 THEN 60
                     ELSE IF i % (channels * 8) = 2 THEN 30 ELSE 0)
               ELSE (IF i % (channels * 8) = 2 THEN 255 ELSE 0)]]

\* width, height, channels of the buffers scanned: 101, 128, 90, 113, 136
\* and 34 samples
Shapes == {<<23, 35, 1>>, <<30, 34, 1>>, <<24, 30, 3>>, <<30, 30, 3>>, <<32, 34, 3>>,
           <<17, 16, 4>>}
BlueLeads == {0, 40, 80}
SkinRuns == {0, 30, 36, 41, 200}

ScannedImages ==
  {SampledImage(s[1], s[2], s[3], lead, run) : s \in Shapes, lead \in BlueLeads, run \in SkinRuns}

\* lines 97-99: the byte offsets the first `last` passes read
ReadOffsets(img, last) ==
  UNION {{(k - 1) * Stride(img), (k - 1) * Stride(img) + 1, (k - 1) * Stride(img) + 2} :
         k \in 1..last}

InitSkin ==
  /\ InitIdle
  /\ text = [kind |-> "fault", text |-> ""]
  /\ analysis = None
  /\ image \in {Some(img) : img \in ScannedImages}
  /\ scanned = None

\* lines 89-138: the loop runs and the verdict is computed
ScanReturns ==
  /\ scanned = None
  /\ scanned' = Some([counters |-> ScanBuffer(image[1]),
                   exited |-> Breaks(image[1], LastPass(image[1])),
                   reads |-> ReadOffsets(image[1], LastPass(image[1])),
                   verdict |-> ClassifyBuffer(image[1])])
  /\ UNCHANGED <<now, ticks, cache, fast, batch, lastOp, written, text, analysis, image>>

NextSkin == ScanReturns

SpecSkin == InitSkin /\ [][NextSkin]_vars

\* every sample the loop can take of the buffer is (r, g, b)
AllSamplesAre(img, r, g, b) ==
  \A k \in 1..SampleCount(img) :
    /\ img.data[(k - 1) * Stride(img)] = r
    /\ img.data[(k - 1) * Stride(img) + 1] = g
    /\ img.data[(k - 1) * Stride(img) + 2] = b

\* the scan stopped at the first pass at which totalPixels > 100 and
\* skinPixels / totalPixels > 0.35, and read nothing beyond it
StoppedAtFirstBreak(img, s) ==
  /\ s.exited
  /\ Breaks(img, s.counters.totalPixels)
  /\ \A k \in 1..(s.counters.totalPixels - 1) : ~Breaks(img, k)
  /\ \A o \in s.reads : o < s.counters.totalPixels * Stride(img)

C20_EarlyExitShortCircuits ==
  (scanned # None /\ scanned[1].exited) =>
     /\ Cardinality(scanned[1].counters.skinRegions) > 30
     /\ HasLargeSkinRegions(scanned[1].counters.skinPixels, scanned[1].counters.totalPixels,
                            Cardinality(scanned[1].counters.skinRegions))
     /\ scanned[1].verdict.isExplicit
     /\ scanned[1].verdict.confidence >= 900
     /\ SkipsOcr(scanned[1].verdict)

\* the early exit fired late (after the 101st sample) on a buffer whose
\* skin percentage is between 35 and 40: confidence 0.7 + 0.2
C20_Witness ==
  /\ scanned # None
  /\ scanned[1].exited
  /\ scanned[1].counters.totalPixels > 101
  /\ scanned[1].verdict.skinPercentage < 4000
  /\ scanned[1].verdict.confidence = 900

\* the URLs callers pass in the model
AllUrls == TopUrls \cup UNION {{l[i] : i \in 1..Len(l)} : l \in UrlLists}

\* call c returns in this step, having computed its result
ComputesAndReturnsNow(c) ==
  /\ c <= Len(fast)
  /\ fast[c].pc # "done"
  /\ fast'[c].pc = "done"
  /\ ~fast'[c].hit

\* the entry e stored for URL u is the whole result of one call for u
WholeResultOfOneCall(e, u) ==
  /\ IsFullDetail(e.data)
  /\ e.data.url = u
  /\ e.by \in Calls
  /\ fast[e.by].url = u
  /\ fast[e.by].pc = "done"
  /\ ~fast[e.by].hit
  /\ fast[e.by].result = Some(e.data)
  /\ fast[e.by].fetches = 1

\* C14: under every interleaving of analyzeImageFast and analyzeImagesBatch
\* calls, two calls for one URL that both miss included, every entry under
\* "image-analysis:" + u is a complete ImageAnalysisDetail with url = u, the
\* whole result of one call for u; and an entry is written only by the call
\* that returns in that step, which replaces whatever was there (the last
\* writer wins).
C14_NoCorruption ==
  /\ [](\A u \in AllUrls :
          imageCacheKey(u) \in DOMAIN cache => WholeResultOfOneCall(cache[imageCacheKey(u)], u))
  /\ [][\A u \in AllUrls :
          (/\ imageCacheKey(u) \in DOMAIN cache'
           /\ imageCacheKey(u) \in DOMAIN cache => cache'[imageCacheKey(u)] # cache[imageCacheKey(u)])
          => /\ ComputesAndReturnsNow(cache'[imageCacheKey(u)].by)
             /\ fast[cache'[imageCacheKey(u)].by].url = u
             /\ cache'[imageCacheKey(u)].data = fast'[cache'[imageCacheKey(u)].by].result[1]
             /\ \A c \in 1..Len(fast') :
                  ComputesAndReturnsNow(c) => c = cache'[imageCacheKey(u)].by]_vars

\* two calls for one URL both missed and invoked the image source, they
\* returned different results, and the entry is that of the one called
\* first, which returned last
C14_Witness ==
  \E c1, c2 \in Calls :
    /\ c1 < c2
    /\ fast[c1].url = fast[c2].url
    /\ fast[c1].pc = "done" /\ fast[c2].pc = "done"
    /\ fast[c1].fetches = 1 /\ fast[c2].fetches = 1
    /\ fast[c1].seen = None /\ fast[c2].seen = None
    /\ fast[c1].result # fast[c2].result
    /\ imageCacheKey(fast[c1].url) \in DOMAIN cache
    /\ cache[imageCacheKey(fast[c1].url)].by = c1
    /\ cache[imageCacheKey(fast[c1].url)].data = fast[c1].result[1]

\* the text analyses the OCR step of a call can end with: what
\* analyzeImageText resolved with, or the fallback when the timer fired
TextResultsOf(call) ==
  IF call.timedOut THEN {TimeoutTextAnalysis}
  ELSE {TextVerdicts[ocr] : ocr \in OcrOutcomes}

\* C15: a call of analyzeImageFast that ran the OCR step (whether the OCR
\* gave a text, failed or was outrun by the timer) returns
\* isExplicit = skin.isExplicit or (text.hasExplicitText and
\* text.confidence > 0.4), confidence = max(skin.confidence,
\* 0.8 x text.confidence), the skin result's skinPercentage and, as
\* textAnalysis, the text result used.
C15_CombineRule ==
  \A c \in Calls :
    (fast[c].pc = "done" /\ fast[c].ocrs = 1) =>
       LET r == fast[c].result[1]
           skin == fast[c].skin[1]
           t == r.textAnalysis
       IN /\ t \in TextResultsOf(fast[c])
          /\ r.isExplicit = (skin.isExplicit \/ (t.hasExplicitText /\ t.confidence > 400))
          /\ r.confidence * 10 = Max(skin.confidence * 10, 8 * t.confidence)
          /\ r.skinPercentage = skin.skinPercentage
          /\ r.url = fast[c].url

\* the image source failed, the OCR found explicit text: the detail is
\* explicit by its text alone, with confidence 0.8 x 0.6
C15_Witness ==
  \E c \in Calls :
    /\ fast[c].pc = "done"
    /\ fast[c].ocrs = 1
    /\ ~fast[c].skin[1].isExplicit
    /\ fast[c].result[1].textAnalysis.hasExplicitText
    /\ fast[c].result[1].isExplicit
    /\ fast[c].result[1].confidence = 480

\* the greatest of a finite set of numbers and 0
GreatestOr0(numbers) == CHOOSE x \in numbers \cup {0} : \A y \in numbers \cup {0} : y <= x

\* the elements of a sequence
Range(seq) == {seq[i] : i \in 1..Len(seq)}

\* C16: the result of analyzeImagesBatch has hasExplicitContent = (some
\* detail is explicit) or (some detail has explicit text with text
\* confidence > 0.3); confidence = max(the greatest confidence of an
\* explicit detail or 0, the greatest text confidence of a detail with
\* explicit text and text confidence > 0.3 or 0); detectedCategories = the
\* union of the details' text categories; an empty list gives false, 0 and
\* no details.
C16_Aggregation ==
  \A b \in Batches :
    batch[b].pc = "done" =>
      LET r == batch[b].result[1]
          explicit == {d \in Range(r.details) : d.isExplicit}
          withText == {d \in Range(r.details) :
                         d.textAnalysis.hasExplicitText /\ d.textAnalysis.confidence > 300}
      IN /\ r.hasExplicitContent = (explicit # {} \/ withText # {})
         /\ r.hasExplicitText = (withText # {})
         /\ r.textConfidence = GreatestOr0({d.textAnalysis.confidence : d \in withText})
         /\ r.confidence = Max(GreatestOr0({d.confidence : d \in explicit}),
                               GreatestOr0({d.textAnalysis.confidence : d \in withText}))
         /\ Range(r.detectedCategories)
              = UNION {Range(d.textAnalysis.categories) : d \in Range(r.details)}
         /\ Len(r.detectedCategories) = Cardinality(Range(r.detectedCategories))
         /\ (~batch[b].hit) => /\ Len(r.details) = Len(batch[b].urls)
                               /\ \A c \in KidsOf(b) : r.details[fast[c].idx] = fast[c].result[1]
         /\ (~batch[b].hit /\ batch[b].urls = << >>) =>
               /\ ~r.hasExplicitContent
               /\ r.confidence = 0
               /\ r.details = << >>

\* an empty list has been aggregated, and a list of three details of which
\* the first is not the most confident, one is explicit by its text alone
\* and one is not explicit
C16_Witness ==
  \E b1, b2 \in Batches :
    /\ batch[b1].pc = "done" /\ ~batch[b1].hit /\ batch[b1].urls = << >>
    /\ batch[b2].pc = "done" /\ ~batch[b2].hit
    /\ Len(batch[b2].result[1].details) = 3
    /\ batch[b2].result[1].details[1].confidence = 480
    /\ batch[b2].result[1].confidence = 1000
    /\ batch[b2].result[1].textConfidence = 600
    /\ \E i \in 1..3 : ~batch[b2].result[1].details[i].isExplicit

\* the catalog entries (category, keyword) whose keyword matches the
\* normalized form of the extracted text t
HittingEntries(t) ==
  {i \in 1..Len(EXPLICIT_KEYWORDS) : KeywordHits(normalizeText(t), EXPLICIT_KEYWORDS[i].keyword)}

\* C17: the confidence of the text classifier is min(0.3 x the number of
\* catalog entries (category, keyword) that hit, 1.0), while detectedWords
\* is deduplicated; so hasExplicitText holds exactly when at least 2 entries
\* hit, one hit gives 0.3 and no flag, "porn" alone (listed in two
\* categories) gives 0.6, and no hit gives confidence 0, no flag and no
\* categories.
C17_ConfidenceCountsEntries ==
  (text.kind = "text" /\ analysis # None) =>
     LET r == analysis[1]
         n == Cardinality(HittingEntries(Trim(text.text)))
     IN /\ r.confidence = Min(300 * n, 1000)
        /\ r.hasExplicitText = (n >= 2)
        /\ Range(r.detectedWords)
             = {EXPLICIT_KEYWORDS[i].keyword : i \in HittingEntries(Trim(text.text))}
        /\ Len(r.detectedWords) = Cardinality(Range(r.detectedWords))
        /\ Range(r.categories)
             = {EXPLICIT_KEYWORDS[i].category : i \in HittingEntries(Trim(text.text))}
        /\ (n = 1) => (r.confidence = 300 /\ ~r.hasExplicitText)
        /\ (n = 0) => (r.confidence = 0 /\ ~r.hasExplicitText /\ r.categories = << >>)
        /\ (text.text = "porn") => (r.confidence = 600 /\ r.detectedWords = <<"porn">>)

\* "porn" alone has been classified: one distinct word, two entries
C17_Witness ==
  /\ text = [kind |-> "text", text |-> "porn"]
  /\ analysis # None
  /\ Cardinality(HittingEntries("porn")) = 2
  /\ analysis[1].detectedWords = <<"porn">>
  /\ analysis[1].hasExplicitText

(***************************************************************************)
(* Progress.  The same calls and collaborators, scheduled fairly: a fetch  *)
(* that is awaited is eventually answered (the premise of the progress     *)
(* claim), time passes until a pending timer is due, a due timer fires,    *)
(* and a continuation whose promises are settled runs.  Nothing is assumed *)
(* of the OCR engine: analyzeImageText may never settle.                   *)
(***************************************************************************)
\* time passes until the timer of call c is due (setTimeout, line 12)
TimerDue(c) ==
  /\ fast[c].pc = "ocr"
  /\ now < fast[c].deadline
  /\ now' = fast[c].deadline
  /\ UNCHANGED <<ticks, cache, fast, batch, lastOp, written, text, analysis, image, scanned>>

\* the list the fairly scheduled batches are called with: three URLs, which
\* make two chunks
LiveUrlLists == {<<"a", "a", "b">>}

NextLive ==
  \/ \E imageUrl \in TopUrls : AnalyzeImageFast(imageUrl)
  \/ \E c \in 1..Len(fast), fetched \in FetchOutcomes : FetchSettles(c, fetched)
  \/ \E c \in 1..Len(fast), ocr \in OcrOutcomes : OcrSettles(c, ocr)
  \/ \E c \in 1..Len(fast) : TimerDue(c)
  \/ \E c \in 1..Len(fast) : TimerFires(c)
  \/ \E c \in 1..Len(fast) : AbandonedOcrSettles(c)
  \/ \E imageUrls \in LiveUrlLists : AnalyzeImagesBatch(imageUrls)
  \/ \E b \in 1..Len(batch) : BatchResumes(b)

\* a step of the event loop that the progress of a call waits for
Progress ==
  \/ \E c \in 1..Len(fast), fetched \in FetchOutcomes : FetchSettles(c, fetched)
  \/ \E c \in 1..Len(fast) : TimerDue(c)
  \/ \E c \in 1..Len(fast) : TimerFires(c)
  \/ \E b \in 1..Len(batch) : BatchResumes(b)

Fairness == WF_vars(Progress)

SpecLive == Init /\ [][NextLive]_vars /\ Fairness

\* C18: if the image source eventually answers every fetch, every call of
\* analyzeImageFast eventually returns, even if the OCR never completes,
\* and every call of analyzeImagesBatch eventually has started the analyses
\* of all its chunks and returns.
C18_EveryCallReturns ==
  /\ \A c \in 1..MaxCalls :
       (c <= Len(fast)) ~> (c <= Len(fast) /\ fast[c].pc = "done")
  /\ \A b \in 1..MaxBatch :
       (b <= Len(batch)) ~>
          (/\ b <= Len(batch)
           /\ batch[b].pc = "done"
           /\ ~batch[b].hit => {fast[c].idx : c \in KidsOf(b)} = 1..Len(batch[b].urls))

\* a batch of three URLs has returned although the OCR of one of its
\* analyses never completed
C18_Witness ==
  \E b \in Batches :
    /\ batch[b].pc = "done"
    /\ Len(batch[b].urls) = 3
    /\ Cardinality(KidsOf(b)) = 3
    /\ \E c \in KidsOf(b) : fast[c].timedOut /\ fast[c].ocrOp = "running"

(***************************************************************************)
(* The OCR the timer outran.                                               *)
(***************************************************************************)
\* what a call returns when the timer wins the race (lines 62-87)
TimeoutFallback(call) == CombinedResult(call.url, call.skin[1], TimeoutTextAnalysis)

\* the entry of the cache under the key of call c is the one c stored
HoldsEntryOf(entries, c) ==
  /\ imageCacheKey(fast[c].url) \in DOMAIN entries
  /\ entries[imageCacheKey(fast[c].url)].by = c

\* C19: once the timer has won the race, the completion of the abandoned
\* OCR changes neither the result the call returned nor any cache entry;
\* the entry the call stored is its timeout fallback result for as long as
\* it is there, and it goes only by expiry or by the write of another
\* analysis.
C19_NoLateEffect ==
  /\ [](\A c \in Calls :
          fast[c].timedOut =>
            /\ fast[c].result = Some(TimeoutFallback(fast[c]))
            /\ HoldsEntryOf(cache, c) =>
                 cache[imageCacheKey(fast[c].url)].data = TimeoutFallback(fast[c]))
  /\ [][\A c \in Calls :
          fast[c].timedOut =>
            /\ fast'[c].result = fast[c].result
            /\ (fast[c].ocrOp = "running" /\ fast'[c].ocrOp = "settled") => cache' = cache
            /\ (HoldsEntryOf(cache, c) /\ ~HoldsEntryOf(cache', c)) =>
                 \/ IsExpired(cache[imageCacheKey(fast[c].url)], now)
                 \/ /\ imageCacheKey(fast[c].url) \in DOMAIN cache'
                    /\ cache'[imageCacheKey(fast[c].url)].by \in Calls' \ {c}
            /\ (HoldsEntryOf(cache, c) /\ HoldsEntryOf(cache', c)) =>
                 cache'[imageCacheKey(fast[c].url)] = cache[imageCacheKey(fast[c].url)]]_vars

\* the OCR of a call that returned on the timer has completed, and the
\* entry the call stored is still in the cache
C19_Witness ==
  \E c \in Calls :
    /\ fast[c].timedOut
    /\ fast[c].ocrOp = "settled"
    /\ HoldsEntryOf(cache, c)
    /\ ~IsExpired(cache[imageCacheKey(fast[c].url)], now)

(***************************************************************************)
(* Explicit text and the explicit verdict.                                 *)
(***************************************************************************)
\* analyzeImageText on every text of the text classifier's inputs
TextVerdictsAlone == [ocr \in OcrOutcomesAlone |-> analyzeImageText(ocr)]

\* the verdicts analyzeImageForExplicitContent can resolve with
SkinResults == {SkinVerdicts[name] : name \in ImageNames} \cup {SkinAnalysisFailed}

\* lines 73-75 on every text verdict and skin verdict: a text analysis with
\* hasExplicitText has a confidence of at least 0.6 and makes the detail
\* explicit
ExplicitTextIsExplicit ==
  \A ocr \in OcrOutcomesAlone, skinAnalysis \in SkinResults :
    TextVerdictsAlone[ocr].hasExplicitText =>
      /\ TextVerdictsAlone[ocr].confidence >= 600
      /\ CombinedResult("a", skinAnalysis, TextVerdictsAlone[ocr]).isExplicit

\* C21: every detail analyzeImageFast produces with
\* textAnalysis.hasExplicitText is explicit, its text confidence being at
\* least 0.6; so a batch result with hasExplicitText has an explicit
\* detail, and its hasExplicitContent says exactly that some detail is
\* explicit.
C21_ExplicitTextImpliesExplicit ==
  /\ ExplicitTextIsExplicit
  /\ \A c \in Calls :
       (fast[c].pc = "done" /\ fast[c].result[1].textAnalysis.hasExplicitText) =>
          /\ fast[c].result[1].isExplicit
          /\ fast[c].result[1].textAnalysis.confidence >= 600
  /\ \A b \in Batches :
       batch[b].pc = "done" =>
         LET r == batch[b].result[1]
         IN /\ \A d \in Range(r.details) : d.textAnalysis.hasExplicitText => d.isExplicit
            /\ r.hasExplicitText => \E d \in Range(r.details) : d.isExplicit
            /\ r.hasExplicitContent = (\E d \in Range(r.details) : d.isExplicit)

\* a batch has returned with hasExplicitText, one of its details explicit
\* by its text alone, another neither explicit nor with explicit text
C21_Witness ==
  \E b \in Batches :
    /\ batch[b].pc = "done"
    /\ ~batch[b].hit
    /\ batch[b].result[1].hasExplicitText
    /\ batch[b].result[1].hasExplicitContent
    /\ \E c \in KidsOf(b) :
         /\ fast[c].ocrs = 1
         /\ ~fast[c].skin[1].isExplicit
         /\ fast[c].result[1].textAnalysis.hasExplicitText
         /\ fast[c].result[1].isExplicit
    /\ \E d \in Range(batch[b].result[1].details) :
         ~d.isExplicit /\ ~d.textAnalysis.hasExplicitText

====
